---- MODULE Spec2Model ----
(***************************************************************************)
(* A model of npp_zero_tracker.py: the daily_power ledger, the backward    *)
(* zero-streak walk, the plant rollup and the daily run (main).            *)
(*                                                                         *)
(* Dates are day ordinals (date.toordinal() shifted so that ordinal 1 is   *)
(* 2024-02-28); the ledger stores d.isoformat(), modelled by IsoFormat.    *)
(* Strings the code inspects character by character (unit labels) are      *)
(* sequences of one-character strings.                                     *)
(***************************************************************************)
EXTENDS Integers, Sequences, FiniteSets, TLC

\* ---------------------------------------------------------------- bounds
\* Days upsert_day is called with and utc_today() returns: 1..MaxLedgerDay.
MaxLedgerDay == 2
\* Longest sequence of UnitStatus handed to upsert_day.
MaxRows == 2
\* Days of history in the ledgers the streak walk is run on: 1..MaxDay.
MaxDay == 3
\* Largest streak in the unit-to-streak maps a report is built from.
MaxStreak == 3
\* NPP_THRESHOLD_DAYS ranges over 0..MaxThreshold.
MaxThreshold == 2

LedgerDays == 1..MaxLedgerDay
Days == 1..MaxDay
Thresholds == 0..MaxThreshold

\* ------------------------------------------------------------ characters
Whitespace == {" "}
Digits == {"0", "1", "2", "3", "4", "5", "6", "7", "8", "9"}

\* Code points, the order of Python's str comparison and of SQLite's BINARY
\* collation (ORDER BY unit).
Ord(c) ==
    CASE c = " " -> 32
      [] c = "1" -> 49
      [] c = "2" -> 50
      [] c = "A" -> 65
      [] c = "B" -> 66
      [] c = "C" -> 67
      [] c = "U" -> 85
      [] c = "i" -> 105
      [] c = "n" -> 110
      [] c = "t" -> 116
      [] c = "u" -> 117

\* str.lower() on the letters of the model's alphabet (re.IGNORECASE).
Lower(c) ==
    CASE c = "A" -> "a"
      [] c = "B" -> "b"
      [] c = "C" -> "c"
      [] c = "U" -> "u"
      [] OTHER -> c

\* s < t for two strings, by code point, a proper prefix first.
RECURSIVE StrLess(_, _)
StrLess(s, t) ==
    IF t = <<>> THEN FALSE
    ELSE IF s = <<>> THEN TRUE
    ELSE IF Ord(Head(s)) # Ord(Head(t)) THEN Ord(Head(s)) < Ord(Head(t))
    ELSE StrLess(Tail(s), Tail(t))

\* The unit labels of the model.
L_A1 == <<"A", " ", "1">>
L_AU2 == <<"A", " ", "U", "n", "i", "t", " ", "2">>
L_Bu1 == <<"B", " ", "u", "n", "i", "t", "1">>
L_B1 == <<"B", "1">>
L_C == <<"C">>
Labels == {L_A1, L_AU2, L_Bu1, L_B1, L_C}
\* The labels the snapshots of the ledger-level operations and of the run use.
SnapshotLabels == {L_A1, L_AU2}
PowerVals == {0, 100}

\* ------------------------------------------------------- plant resolver
\* (?:\s+\d+)$ matched against the whole of s.
MatchSpaceDigits(s) ==
    \E k \in 1..(Len(s) - 1) :
        /\ \A i \in 1..k : s[i] \in Whitespace
        /\ \A i \in (k + 1)..Len(s) : s[i] \in Digits

\* (?:\s*Unit\s*\d+)$, case-insensitive, matched against the whole of s.
MatchUnitDigits(s) ==
    \E a \in 0..Len(s) : \E b \in 0..Len(s) :
        /\ a + 4 + b < Len(s)
        /\ \A i \in 1..a : s[i] \in Whitespace
        /\ Lower(s[a + 1]) = "u" /\ Lower(s[a + 2]) = "n"
        /\ Lower(s[a + 3]) = "i" /\ Lower(s[a + 4]) = "t"
        /\ \A i \in (a + 5)..(a + 4 + b) : s[i] \in Whitespace
        /\ \A i \in (a + 5 + b)..Len(s) : s[i] \in Digits

\* PLANT_CLEAN_RE.sub("", s): the leftmost position from which the rest of the
\* string matches one alternative is where the only match starts (a match
\* ends at the end of the string and is never empty).
PlantCleanSub(s) ==
    LET starts == {i \in 1..Len(s) :
                     \/ MatchSpaceDigits(SubSeq(s, i, Len(s)))
                     \/ MatchUnitDigits(SubSeq(s, i, Len(s)))}
    IN  IF starts = {} THEN s
        ELSE SubSeq(s, 1, (CHOOSE i \in starts : \A j \in starts : i <= j) - 1)

\* str.strip()
Strip(s) ==
    LET keep == {i \in 1..Len(s) : s[i] \notin Whitespace}
    IN  IF keep = {} THEN <<>>
        ELSE SubSeq(s, CHOOSE i \in keep : \A j \in keep : i <= j,
                       CHOOSE i \in keep : \A j \in keep : i >= j)

plant_name_from_unit(unit_name) == Strip(PlantCleanSub(unit_name))

\* ---------------------------------------------------------------- ledger
\* d.isoformat() for the ordinals around the model's days.
IsoFormat(n) == IF n >= 3 THEN <<2024, 3, n - 2>> ELSE <<2024, 2, n + 27>>

UnitStatus(u, p) == [unit |-> u, power_pct |-> p]

\* The key columns of the table: PRIMARY KEY (d, unit).
SameKey(r, row) == r.d = row.d /\ r.unit = row.unit

\* INSERT with no conflict handling and no key (a fault of InsertOrReplace).
InsertNoKey(con, row) == con \cup {row}

\* An upsert that adds to the stored value instead of replacing it
\* (a fault of InsertOrReplace).
InsertOrAccumulate(con, row) ==
    LET old == {r \in con : SameKey(r, row)}
        sum == IF old = {} THEN row.power_pct
               ELSE (CHOOSE r \in old : TRUE).power_pct + row.power_pct
    IN  (con \ old) \cup {[row EXCEPT !.power_pct = sum]}

\* INSERT OR REPLACE that resolves conflicts on the unit alone
\* (a fault of InsertOrReplace).
InsertOrReplaceByUnit(con, row) ==
    {r \in con : r.unit # row.unit} \cup {row}

\* INSERT OR REPLACE INTO daily_power(d, unit, power_pct) VALUES (?, ?, ?)
InsertOrReplace(con, row) ==
    {r \in con : ~SameKey(r, row)} \cup {row}

\* con.executemany(sql, rows): the statement once per row, in order.
RECURSIVE ExecuteMany(_, _)
ExecuteMany(con, rows) ==
    IF rows = <<>> THEN con
    ELSE ExecuteMany(InsertOrReplace(con, Head(rows)), Tail(rows))

\* Leaving "with sqlite3.connect(...) as con" without rolling back
\* (a fault of ConnectExit).
ConnectExitNoRollback(db, con, raised) == con

\* Leaving "with sqlite3.connect(...) as con": commit, or roll back when the
\* block raised.
ConnectExit(db, con, raised) == IF raised THEN db ELSE con

\* The rows upsert_day builds from its arguments.
UpsertRows(d, units) ==
    [i \in 1..Len(units) |->
        [d |-> IsoFormat(d), unit |-> units[i].unit, power_pct |-> units[i].power_pct]]

\* The table after upsert_day(db_path, d, units); failAt = 0 when no statement
\* fails, else the index of the row whose INSERT raises.
UpsertDayResult(db, d, units, failAt) ==
    LET rows == UpsertRows(d, units)
        done == IF failAt = 0 THEN rows ELSE SubSeq(rows, 1, failAt - 1)
    IN  ConnectExit(db, ExecuteMany(db, done), failAt # 0)

\* SELECT power_pct FROM daily_power WHERE unit = ? AND d = ? : the values of
\* the rows found (at most one, by the primary key).
SelectPower(db, unit, d) ==
    {r.power_pct : r \in {x \in db : x.unit = unit /\ x.d = IsoFormat(d)}}

\* A test that lets a missing day pass as a zero day (a fault of
\* NoneOrNonzero).
NonzeroOnly(db, unit, d) ==
    LET found == SelectPower(db, unit, d)
    IN  IF found = {} THEN FALSE ELSE (CHOOSE p \in found : TRUE) # 0

\* "r is None or int(r["power_pct"]) != 0" for fetchone() of that query.
NoneOrNonzero(db, unit, d) ==
    LET found == SelectPower(db, unit, d)
    IN  IF found = {} THEN TRUE ELSE (CHOOSE p \in found : TRUE) # 0

\* A cursor that steps two days back (a fault of PrevDay).
PrevDaySkips(d) == d - 2

\* cursor_date -= dt.timedelta(days=1)
PrevDay(d) == d - 1

\* The loop of zero_streak_days from (cursor, n) to its return value.
RECURSIVE StreakLoop(_, _, _, _)
StreakLoop(db, u, cursor, n) ==
    IF NoneOrNonzero(db, u, cursor) THEN n
    ELSE StreakLoop(db, u, PrevDay(cursor), n + 1)

\* zero_streak_days(db_path, unit, asof), as one evaluation.
zero_streak_days(db, u, d) ==
    IF NoneOrNonzero(db, u, d) THEN 0 ELSE StreakLoop(db, u, d, 0)

\* The elements of a set of strings as a list in ascending order.
RECURSIVE SortedSeq(_)
SortedSeq(S) ==
    IF S = {} THEN <<>>
    ELSE LET m == CHOOSE x \in S : \A y \in S \ {x} : StrLess(x, y)
         IN  <<m>> \o SortedSeq(S \ {m})

\* SELECT unit FROM daily_power WHERE d = ? ORDER BY unit
list_units_for_date(db, d) == SortedSeq({r.unit : r \in {x \in db : x.d = IsoFormat(d)}})

\* {u: zero_streak_days(DB_PATH, u, report_date) for u in todays_units}, a dict
\* as the list of its <<key, value>> pairs in insertion order.
UnitStreaks(db, todays_units, d) ==
    [i \in 1..Len(todays_units) |->
        <<todays_units[i], zero_streak_days(db, todays_units[i], d)>>]

\* --------------------------------------------------- rollup and flagging
\* dict.get(k, default) and dict[k] = v on a dict kept as the list of its
\* <<key, value>> pairs in insertion order.
DictGet(dict, k, default) ==
    LET at == {i \in 1..Len(dict) : dict[i][1] = k}
    IN  IF at = {} THEN default ELSE dict[CHOOSE i \in at : TRUE][2]

DictSet(dict, k, v) ==
    LET at == {i \in 1..Len(dict) : dict[i][1] = k}
    IN  IF at = {} THEN Append(dict, <<k, v>>)
        ELSE [dict EXCEPT ![CHOOSE i \in at : TRUE] = <<k, v>>]

\* max(plant_max.get(plant, 0), streak)
PlantMaxUpdate(old, s) == IF s > old THEN s ELSE old

\* Lines 154-157: the loop over unit_streaks.items().
RECURSIVE RollupLoop(_, _, _)
RollupLoop(items, plant_units, plant_max) ==
    IF items = <<>> THEN [plant_units |-> plant_units, plant_max |-> plant_max]
    ELSE LET unit_name == Head(items)[1]
             s == Head(items)[2]
             plant == plant_name_from_unit(unit_name)
         IN  RollupLoop(
                 Tail(items),
                 DictSet(plant_units, plant,
                         Append(DictGet(plant_units, plant, <<>>), <<unit_name, s>>)),
                 DictSet(plant_max, plant,
                         PlantMaxUpdate(DictGet(plant_max, plant, 0), s)))

\* Tuples (-n, name) as Python compares them.
KeyLess(a, b) == a[1] < b[1] \/ (a[1] = b[1] /\ StrLess(a[2], b[2]))

\* list.sort / sorted on <<key, item>> pairs: ascending by key, stable.
RECURSIVE InsertByKey(_, _)
InsertByKey(sorted, x) ==
    IF sorted = <<>> THEN <<x>>
    ELSE IF KeyLess(x[1], sorted[Len(sorted)][1])
         THEN Append(InsertByKey(SubSeq(sorted, 1, Len(sorted) - 1), x), sorted[Len(sorted)])
         ELSE Append(sorted, x)

RECURSIVE SortPairs(_)
SortPairs(s) ==
    IF s = <<>> THEN <<>>
    ELSE InsertByKey(SortPairs(SubSeq(s, 1, Len(s) - 1)), s[Len(s)])

\* The elements of s[1..n] at the positions in keep, in order: a list
\* comprehension with an "if".
RECURSIVE Pick(_, _, _)
Pick(s, keep, n) ==
    IF n = 0 THEN <<>>
    ELSE IF n \in keep THEN Append(Pick(s, keep, n - 1), s[n])
    ELSE Pick(s, keep, n - 1)

\* A unit list that keeps the units with no streak (a fault of ListedUnit).
ListedUnitAll(s) == TRUE

\* "if s > 0" of the unit list.
ListedUnit(s) == s > 0

\* Lines 163-166: the sorted unit list of one plant.
SortedUnits(pairs) ==
    LET listed == Pick(pairs, {i \in 1..Len(pairs) : ListedUnit(pairs[i][2])}, Len(pairs))
        sorted == SortPairs([i \in 1..Len(listed) |->
                     <<(<<0 - listed[i][2], listed[i][1]>>),
                       [unit |-> listed[i][1], zero_days |-> listed[i][2]]>>])
    IN  [i \in 1..Len(sorted) |-> sorted[i][2]]

\* A threshold that flags a plant at the threshold (a fault of IsFlagged).
IsFlaggedAtThreshold(max_zero_days, threshold) == max_zero_days >= threshold

\* "if plant_max[plant] > THRESHOLD_DAYS"
IsFlagged(max_zero_days, threshold) == max_zero_days > threshold

\* The flagged list left in the order of the comprehension (a fault of
\* SortFlagged).
SortFlaggedOmitted(flagged) == flagged

\* flagged.sort(key=lambda x: (-x["max_zero_days"], x["plant"]))
SortFlagged(flagged) ==
    LET sorted == SortPairs([i \in 1..Len(flagged) |->
                     <<(<<0 - flagged[i].max_zero_days, flagged[i].plant>>), flagged[i]>>])
    IN  [i \in 1..Len(sorted) |-> sorted[i][2]]

\* Lines 152-171: the list flagged.
Flagged(threshold, streaks) ==
    LET rolled == RollupLoop(streaks, <<>>, <<>>)
        plant_units == rolled.plant_units
        plant_max == rolled.plant_max
        over == Pick(plant_max,
                     {i \in 1..Len(plant_max) : IsFlagged(plant_max[i][2], threshold)},
                     Len(plant_max))
    IN  SortFlagged([i \in 1..Len(over) |->
            [plant |-> over[i][1],
             max_zero_days |-> over[i][2],
             units |-> SortedUnits(DictGet(plant_units, over[i][1], <<>>))]])

\* Lines 173-178: payload.
Payload(d, threshold, streaks) ==
    LET flagged == Flagged(threshold, streaks)
    IN  [report_date |-> IsoFormat(d),
         threshold_days |-> threshold,
         flagged_count |-> Len(flagged),
         flagged_plants |-> flagged]

\* Every sequence over S of length at most n.
SeqsUpTo(S, n) == UNION {[1..k -> S] : k \in 0..n}

\* Lines 61-69: the first occurrence of every (unit, power_pct) pair.
RECURSIVE Dedup(_, _)
Dedup(us, deduped) ==
    IF us = <<>> THEN deduped
    ELSE IF \E i \in 1..Len(deduped) : deduped[i] = Head(us)
         THEN Dedup(Tail(us), deduped)
         ELSE Dedup(Tail(us), Append(deduped, Head(us)))

\* A parser that returns an empty list (a fault of ParseRaises).
ParseNeverRaises(deduped) == FALSE

\* Lines 71-72: "if not deduped: raise RuntimeError(...)".
ParseRaises(deduped) == deduped = <<>>

\* The rows lines 42-59 can collect from the page.
ParsedRows == SeqsUpTo({UnitStatus(u, p) : u \in SnapshotLabels, p \in PowerVals}, MaxRows)

\* The sequences of UnitStatus a caller may hand to upsert_day: no pair
\* (unit, power_pct) twice, as parse_units_from_html de-duplicates them; the
\* same unit with two different values is possible.
Snapshots ==
    {s \in SeqsUpTo({UnitStatus(u, p) : u \in SnapshotLabels, p \in PowerVals}, MaxRows) :
        \A i \in 1..Len(s) : \A j \in 1..Len(s) : i # j => s[i] # s[j]}

\* ------------------------------------------------------------- variables
VARIABLES
    ledger,          \* the rows of table daily_power
    before,          \* the rows when the last upsert_day call or run began
    call,            \* the last upsert_day call: [d, units, raised, again]
    walk_pc,         \* zero_streak_days: "idle", "first", "loop", "done"
    unit,            \* zero_streak_days: its argument unit
    asof,            \* zero_streak_days: its argument asof
    streak,          \* zero_streak_days: local streak
    cursor_date,     \* zero_streak_days: local cursor_date
    result,          \* zero_streak_days: the value returned
    THRESHOLD_DAYS,  \* the module constant read from NPP_THRESHOLD_DAYS
    unit_streaks,    \* main: the dict unit_streaks, in insertion order
    payload,         \* main: <<>> or <<payload>>
    pc,              \* main: the step the run is at
    report_date,     \* main: local report_date
    units,           \* main: local units
    out              \* the file OUT_JSON

ledgerVars == <<ledger, before, call>>
walkVars == <<walk_pc, unit, asof, streak, cursor_date, result>>
reportVars == <<THRESHOLD_DAYS, unit_streaks, payload>>
runVars == <<pc, report_date, units, out>>
vars == <<ledger, before, call, walk_pc, unit, asof, streak, cursor_date, result,
          THRESHOLD_DAYS, unit_streaks, payload, pc, report_date, units, out>>

NoCall == [d |-> 0, units |-> <<>>, raised |-> FALSE, again |-> FALSE]
NoFile == [state |-> "absent", payload |-> <<>>]

WalkIdle ==
    /\ walk_pc = "idle" /\ unit = <<>> /\ asof = 0
    /\ streak = 0 /\ cursor_date = 0 /\ result = 0
ReportIdle == THRESHOLD_DAYS = 0 /\ unit_streaks = <<>> /\ payload = <<>>
RunIdle == pc = "idle" /\ report_date = 0 /\ units = <<>> /\ out = NoFile

\* The tables daily_power can hold over the given days and units: at most one
\* row per (d, unit), each with a value of PowerVals. noRow marks a key with
\* no row.
LedgersOver(days, labels) ==
    LET noRow == 0 - 1
        rowsOf(f) == {[d |-> IsoFormat(k[1]), unit |-> k[2], power_pct |-> f[k]] :
                        k \in {x \in DOMAIN f : f[x] # noRow}}
    IN  {rowsOf(f) : f \in [days \X labels -> PowerVals \cup {noRow}]}

\* ------------------------------------ the ledger operations and the run
\* After init_db: CREATE TABLE IF NOT EXISTS keeps the rows of an existing
\* database, so the table holds whatever earlier runs upserted. The threshold
\* is one day here; SpecReport varies it.
Init ==
    /\ ledger \in LedgersOver(LedgerDays, SnapshotLabels)
    /\ before = ledger /\ call = NoCall
    /\ WalkIdle
    /\ THRESHOLD_DAYS = 1 /\ unit_streaks = <<>> /\ payload = <<>>
    /\ RunIdle

\* upsert_day(DB_PATH, d, us) returning normally.
upsert_day(d, us) ==
    /\ pc = "idle" /\ call = NoCall
    /\ ledger' = UpsertDayResult(ledger, d, us, 0)
    /\ before' = ledger
    /\ call' = [d |-> d, units |-> us, raised |-> FALSE, again |-> FALSE]
    /\ UNCHANGED <<walkVars, reportVars, runVars>>

\* upsert_day(DB_PATH, d, us) raising at statement failAt (Len(us) + 1: at
\* the commit).
upsert_day_raises(d, us, failAt) ==
    /\ pc = "idle" /\ call = NoCall
    /\ ledger' = UpsertDayResult(ledger, d, us, failAt)
    /\ before' = ledger
    /\ call' = [d |-> d, units |-> us, raised |-> TRUE, again |-> FALSE]
    /\ UNCHANGED <<walkVars, reportVars, runVars>>

\* The call that just returned, made once more with the same arguments.
upsert_day_again ==
    /\ call # NoCall /\ ~call.raised /\ ~call.again
    /\ ledger' = UpsertDayResult(ledger, call.d, call.units, 0)
    /\ before' = ledger
    /\ call' = [call EXCEPT !.again = TRUE]
    /\ UNCHANGED <<walkVars, reportVars, runVars>>

\* Lines 139-140: os.makedirs and init_db.
main_start ==
    /\ pc = "idle" /\ call = NoCall
    /\ pc' = "fetch"
    /\ UNCHANGED <<ledgerVars, walkVars, reportVars, report_date, units, out>>

main_start_raises ==
    /\ pc = "idle" /\ call = NoCall
    /\ pc' = "failed_init"
    /\ UNCHANGED <<ledgerVars, walkVars, reportVars, report_date, units, out>>

\* Line 142: fetch_status_html.
main_fetch ==
    /\ pc = "fetch"
    /\ pc' = "parse"
    /\ UNCHANGED <<ledgerVars, walkVars, reportVars, report_date, units, out>>

main_fetch_raises ==
    /\ pc = "fetch"
    /\ pc' = "failed_fetch"
    /\ UNCHANGED <<ledgerVars, walkVars, reportVars, report_date, units, out>>

\* Line 143: parse_units_from_html returning (utc_today(), deduped).
main_parse(today, rows) ==
    /\ pc = "parse"
    /\ ~ParseRaises(Dedup(rows, <<>>))
    /\ report_date' = today
    /\ units' = Dedup(rows, <<>>)
    /\ pc' = "upsert"
    /\ UNCHANGED <<ledgerVars, walkVars, reportVars, out>>

\* Line 143: parse_units_from_html raising; report_date and units stay unbound.
main_parse_raises(rows) ==
    /\ pc = "parse"
    /\ ParseRaises(Dedup(rows, <<>>))
    /\ pc' = "failed_parse"
    /\ UNCHANGED <<ledgerVars, walkVars, reportVars, report_date, units, out>>

\* Line 144: upsert_day(DB_PATH, report_date, units).
main_upsert ==
    /\ pc = "upsert"
    /\ ledger' = UpsertDayResult(ledger, report_date, units, 0)
    /\ pc' = "streaks"
    /\ UNCHANGED <<before, call, walkVars, reportVars, report_date, units, out>>

main_upsert_raises(failAt) ==
    /\ pc = "upsert"
    /\ ledger' = UpsertDayResult(ledger, report_date, units, failAt)
    /\ pc' = "failed_upsert"
    /\ UNCHANGED <<before, call, walkVars, reportVars, report_date, units, out>>

\* Lines 146-149: todays_units and unit_streaks.
main_streaks ==
    /\ pc = "streaks"
    /\ unit_streaks' =
          UnitStreaks(ledger, list_units_for_date(ledger, report_date), report_date)
    /\ pc' = "rollup"
    /\ UNCHANGED <<ledgerVars, walkVars, THRESHOLD_DAYS, payload, report_date, units, out>>

\* Lines 146-149 raising: a query of the database fails.
main_streaks_raises ==
    /\ pc = "streaks"
    /\ pc' = "failed_streaks"
    /\ UNCHANGED <<ledgerVars, walkVars, reportVars, report_date, units, out>>

\* Lines 152-178: the rollup, the flagged list and the payload.
main_rollup ==
    /\ pc = "rollup"
    /\ payload' = <<Payload(report_date, THRESHOLD_DAYS, unit_streaks)>>
    /\ pc' = "write"
    /\ UNCHANGED <<ledgerVars, walkVars, THRESHOLD_DAYS, unit_streaks, report_date, units, out>>

\* Lines 180-181: the payload written to OUT_JSON.
main_write ==
    /\ pc = "write"
    /\ out' = [state |-> "complete", payload |-> payload]
    /\ pc' = "done"
    /\ UNCHANGED <<ledgerVars, walkVars, reportVars, report_date, units>>

\* Lines 180-181 raising: open() fails and the file is as it was, or the
\* write fails after open() truncated the file.
main_write_raises ==
    /\ pc = "write"
    /\ \/ out' = out
       \/ out' = [state |-> "partial", payload |-> <<>>]
    /\ pc' = "failed_write"
    /\ UNCHANGED <<ledgerVars, walkVars, reportVars, report_date, units>>

Next ==
    \/ /\ pc = "idle" /\ call = NoCall
       /\ \E d \in LedgerDays : \E us \in Snapshots :
            \/ upsert_day(d, us)
            \/ \E failAt \in 1..(Len(us) + 1) : upsert_day_raises(d, us, failAt)
    \/ upsert_day_again
    \/ main_start
    \/ main_start_raises
    \/ main_fetch
    \/ main_fetch_raises
    \/ /\ pc = "parse"
       /\ \E rows \in ParsedRows :
            \/ \E today \in LedgerDays : main_parse(today, rows)
            \/ main_parse_raises(rows)
    \/ main_upsert
    \/ /\ pc = "upsert"
       /\ \E failAt \in 1..(Len(units) + 1) : main_upsert_raises(failAt)
    \/ main_streaks
    \/ main_streaks_raises
    \/ main_rollup
    \/ main_write
    \/ main_write_raises

Spec == Init /\ [][Next]_vars

\* The rows of day n.
DayRows(db, n) == {r \in db : r.d = IsoFormat(n)}

\* The index of the last pair of us for the unit of us[i].
IsLastForUnit(us, i) == \A j \in (i + 1)..Len(us) : us[j].unit # us[i].unit

Committed == call # NoCall /\ ~call.raised

\* C2: upsert_day called a second time with the same date and the same
\* records leaves the ledger as the first call left it.
C2_UpsertIdempotent ==
    (Committed /\ call.again) => ledger = before

\* A second call with two records, one of them overwriting the other.
C2_Witness ==
    /\ Committed /\ call.again
    /\ Len(call.units) = 2
    /\ call.units[1].unit = call.units[2].unit
    /\ call.units[1].power_pct # call.units[2].power_pct

\* C5, as stated: upsert_day called with an empty sequence ends in an error,
\* and a run with an empty snapshot does not go on to a report.
C5_EmptyUpsertRaises ==
    /\ (call # NoCall /\ call.units = <<>>) => call.raised
    /\ pc \in {"upsert", "streaks", "rollup", "write", "done"} => units # <<>>

\* C5, amended: an empty snapshot fails the run in parse_units_from_html,
\* before upsert_day: the run is never past the parse with no units, and the
\* failed run leaves the ledger as it was and writes nothing. upsert_day called
\* with an empty sequence returns normally and leaves the ledger as it was.
C5_EmptySnapshotFailsInParse ==
    /\ pc \in {"upsert", "streaks", "rollup", "write", "done",
               "failed_upsert", "failed_streaks", "failed_write"} => units # <<>>
    /\ pc = "failed_parse" => (ledger = before /\ out = NoFile /\ payload = <<>>)
    /\ (Committed /\ call.units = <<>>) => ledger = before

\* A run that failed in the parse, over a ledger that holds rows.
C5_Witness == pc = "failed_parse" /\ ledger # {} /\ ledger = before

FailedEarly == {"failed_init", "failed_fetch", "failed_parse", "failed_upsert"}
FailedLate == {"failed_streaks", "failed_write"}

\* Every unit of the run's snapshot has its row of report_date, with the value
\* of its last pair, and the rows of the other days are as before the run.
DayUpserted ==
    /\ \A i \in 1..Len(units) :
          IsLastForUnit(units, i) =>
              SelectPower(ledger, units[i].unit, report_date) = {units[i].power_pct}
    /\ \A n \in LedgerDays :
          n # report_date => DayRows(ledger, n) = DayRows(before, n)

\* C6, as stated: a run that failed at any step wrote no report and left the
\* ledger as it was before the run.
C6_FailedRunLeavesLedger ==
    pc \in (FailedEarly \cup FailedLate) =>
        (ledger = before /\ out.state # "complete")

\* C6, amended: a run that failed in the fetch, the parse or upsert_day left
\* the ledger as it was and wrote nothing; a run that failed later left the
\* whole day upserted and wrote no complete report; at no step is the day
\* partly upserted.
C6_FailureBeforeCommitLeavesLedger ==
    /\ pc \in FailedEarly => (ledger = before /\ out = NoFile)
    /\ pc \in FailedLate => (DayUpserted /\ out.state # "complete")
    /\ pc # "idle" => (ledger = before \/ DayUpserted)

\* A run whose upsert_day raised after its first statement, whose records
\* would have changed the ledger.
C6_Witness ==
    /\ pc = "failed_upsert" /\ Len(units) = 2 /\ ledger = before
    /\ UpsertDayResult(before, report_date, units, 0) # before
    /\ InsertOrReplace(before, UpsertRows(report_date, units)[1]) # before

\* C7, as stated: once the ledger holds a record of a day and a record of a
\* later day, no upsert_day call changes or adds a record of the earlier day.
C7_PastDayImmutable ==
    call # NoCall =>
        \A n \in LedgerDays :
            (DayRows(before, n) # {} /\ \E m \in LedgerDays : m > n /\ DayRows(before, m) # {})
                => DayRows(ledger, n) = DayRows(before, n)

\* C7, amended: upsert_day changes and adds records of the day it is called
\* with only, whatever later days the ledger holds: the records of a day stay
\* as they are through every call for another day.
C7_OtherDaysUntouched ==
    call # NoCall =>
        \A n \in LedgerDays : n # call.d => DayRows(ledger, n) = DayRows(before, n)

\* A call for day 2 of a unit that has a row of day 1 with another value.
C7_Witness ==
    /\ Committed /\ call.d = 2 /\ Len(call.units) >= 1
    /\ \E r \in before :
          /\ r.d = IsoFormat(1) /\ r.unit = call.units[1].unit
          /\ r.power_pct # call.units[1].power_pct
    /\ ledger # before

\* The rows with the key (call.d, u) for a unit u of the call.
Touched(db) ==
    {r \in db : r.d = IsoFormat(call.d)
                  /\ \E i \in 1..Len(call.units) : call.units[i].unit = r.unit}

UniqueKeys(db) ==
    \A r \in db : \A q \in db : (r.d = q.d /\ r.unit = q.unit) => r = q

\* C8, as stated: after upsert_day(d, R) every pair of R has exactly one
\* record (d, unit), carrying the value of that pair; every other record is
\* unchanged; no key has two records.
C8_EveryPairStored ==
    Committed =>
        /\ \A i \in 1..Len(call.units) :
              {r \in ledger : r.d = IsoFormat(call.d) /\ r.unit = call.units[i].unit}
                = {[d |-> IsoFormat(call.d), unit |-> call.units[i].unit,
                    power_pct |-> call.units[i].power_pct]}
        /\ ledger \ Touched(ledger) = before \ Touched(before)
        /\ UniqueKeys(ledger)

\* C8, amended: after upsert_day(d, R) every unit of R has exactly one record
\* (d, unit), carrying the value of the last pair of R for that unit; every
\* other record is unchanged; no key has two records.
C8_LastPairStored ==
    Committed =>
        /\ \A i \in 1..Len(call.units) :
              IsLastForUnit(call.units, i) =>
                {r \in ledger : r.d = IsoFormat(call.d) /\ r.unit = call.units[i].unit}
                  = {[d |-> IsoFormat(call.d), unit |-> call.units[i].unit,
                      power_pct |-> call.units[i].power_pct]}
        /\ ledger \ Touched(ledger) = before \ Touched(before)
        /\ UniqueKeys(ledger)

\* A call that overwrote a stored value, over a ledger with rows of another
\* day and of another unit of the same day.
C8_Witness ==
    /\ Committed /\ ~call.again /\ Len(call.units) = 1
    /\ \E r \in before :
          /\ r.d = IsoFormat(call.d) /\ r.unit = call.units[1].unit
          /\ r.power_pct # call.units[1].power_pct
    /\ \E r \in ledger : r.d # IsoFormat(call.d)
    /\ \E r \in ledger : r.d = IsoFormat(call.d) /\ r.unit # call.units[1].unit

\* ------------------------------------------------------ the streak walk
\* zero_streak_days called on any stored ledger, for any unit and day.
InitStreak ==
    /\ ledger \in LedgersOver(Days, SnapshotLabels)
    /\ before = ledger /\ call = NoCall
    /\ walk_pc = "first" /\ unit \in SnapshotLabels /\ asof \in Days
    /\ streak = 0 /\ cursor_date = 0 /\ result = 0
    /\ ReportIdle /\ RunIdle

\* Lines 110-115: the first query finds no row, or a nonzero one: return 0.
streak_return_zero ==
    /\ walk_pc = "first"
    /\ NoneOrNonzero(ledger, unit, asof)
    /\ result' = 0 /\ walk_pc' = "done"
    /\ UNCHANGED <<unit, asof, streak, cursor_date, ledgerVars, reportVars, runVars>>

\* Lines 114-118: the row of asof is zero: streak = 0, cursor_date = asof.
streak_enter_loop ==
    /\ walk_pc = "first"
    /\ ~NoneOrNonzero(ledger, unit, asof)
    /\ streak' = 0 /\ cursor_date' = asof /\ walk_pc' = "loop"
    /\ UNCHANGED <<unit, asof, result, ledgerVars, reportVars, runVars>>

\* Lines 120-127, a zero row at cursor_date: count it and step back a day.
streak_continue ==
    /\ walk_pc = "loop"
    /\ ~NoneOrNonzero(ledger, unit, cursor_date)
    /\ streak' = streak + 1 /\ cursor_date' = PrevDay(cursor_date)
    /\ UNCHANGED <<walk_pc, unit, asof, result, ledgerVars, reportVars, runVars>>

\* Lines 120-128, no row or a nonzero row at cursor_date: break, return streak.
streak_break ==
    /\ walk_pc = "loop"
    /\ NoneOrNonzero(ledger, unit, cursor_date)
    /\ result' = streak /\ walk_pc' = "done"
    /\ UNCHANGED <<unit, asof, streak, cursor_date, ledgerVars, reportVars, runVars>>

NextStreak ==
    \/ streak_return_zero
    \/ streak_enter_loop
    \/ streak_continue
    \/ streak_break

\* The call runs on one thread with nothing to wait for: a step that can be
\* taken is taken.
SpecStreak == InitStreak /\ [][NextStreak]_vars /\ WF_vars(NextStreak)

\* A row for unit u on day n with power_pct exactly 0.
ZeroOn(db, u, n) ==
    \E r \in db : r.unit = u /\ r.d = IsoFormat(n) /\ r.power_pct = 0

\* Some row for unit u on day n.
RecordOn(db, u, n) == \E r \in db : r.unit = u /\ r.d = IsoFormat(n)

\* The length of the maximal run of consecutive days ending at and including
\* day n on each of which unit u has a zero row.
MaximalZeroRun(db, u, n) ==
    CHOOSE k \in 0..n :
        /\ \A i \in 0..(k - 1) : ZeroOn(db, u, n - i)
        /\ ~ZeroOn(db, u, n - k)

\* C1: the value zero_streak_days returns is the length of the maximal run of
\* consecutive days ending at asof on which the unit has a row with power_pct
\* 0; a day with no row or a nonzero row ends the run, so the value is 0 when
\* the row of asof is absent or nonzero.
C1_StreakIsMaximalZeroRun ==
    walk_pc = "done" =>
        /\ result = MaximalZeroRun(ledger, unit, asof)
        /\ (~ZeroOn(ledger, unit, asof) => result = 0)

\* A walk that stopped at a missing day although an older zero row exists.
C1_Witness ==
    /\ walk_pc = "done" /\ asof = 3 /\ result = 1
    /\ ~RecordOn(ledger, unit, 2)
    /\ ZeroOn(ledger, unit, 1)

\* The first day on which unit u has a row (MaxDay + 1 when it has none).
EarliestDay(db, u) ==
    LET have == {n \in Days : RecordOn(db, u, n)}
    IN  IF have = {} THEN MaxDay + 1 ELSE CHOOSE n \in have : \A m \in have : n <= m

\* C10: the backward walk terminates on every finite ledger, its cursor never
\* passes the day before the unit's earliest recorded day, and it changes no
\* row of the ledger.
C10_WalkTerminates ==
    /\ <>(walk_pc = "done")
    /\ [](walk_pc = "loop" => cursor_date >= EarliestDay(ledger, unit) - 1)
    /\ [][ledger' = ledger]_vars

\* A walk that went through the whole history of the unit and stopped at the
\* day before its earliest row.
C10_Witness ==
    /\ walk_pc = "done" /\ asof = MaxDay /\ result = MaxDay
    /\ cursor_date = EarliestDay(ledger, unit) - 1

\* ---------------------------------------------------------- the report
\* The dicts unit_streaks can be: the units of some day in the order of
\* list_units_for_date, each with a streak.
UnitStreakDicts ==
    LET noUnit == 0 - 1
        dictOf(f) ==
            LET us == SortedSeq({u \in Labels : f[u] # noUnit})
            IN  [i \in 1..Len(us) |-> <<us[i], f[us[i]]>>]
    IN  {dictOf(f) : f \in [Labels -> noUnit..MaxStreak]}

\* main at line 152, for any threshold and any dict unit_streaks.
InitReport ==
    /\ ledger = {} /\ before = {} /\ call = NoCall
    /\ WalkIdle
    /\ THRESHOLD_DAYS \in Thresholds
    /\ unit_streaks \in UnitStreakDicts
    /\ payload = <<>>
    /\ pc = "rollup" /\ report_date = 1 /\ units = <<>> /\ out = NoFile

NextReport ==
    \/ main_rollup
    \/ main_write
    \/ main_write_raises

SpecReport == InitReport /\ [][NextReport]_vars

\* The plant of every label, the plants of a dict of unit streaks, and the
\* largest streak among the units of a plant.
PlantOf == [u \in Labels |-> plant_name_from_unit(u)]

PlantsOf(streaks) == {PlantOf[streaks[i][1]] : i \in 1..Len(streaks)}

StreaksOfPlant(streaks, plant) ==
    {streaks[i][2] : i \in {j \in 1..Len(streaks) : PlantOf[streaks[j][1]] = plant}}

MaxStreakOf(streaks, plant) ==
    CHOOSE m \in StreaksOfPlant(streaks, plant) :
        \A n \in StreaksOfPlant(streaks, plant) : n <= m

FlaggedPlants == payload[1].flagged_plants

\* C3: a plant is in the flagged list if and only if the largest streak of
\* its units is strictly greater than the threshold.
C3_StrictThreshold ==
    payload # <<>> =>
        /\ \A plant \in PlantsOf(unit_streaks) :
              (\E i \in 1..Len(FlaggedPlants) : FlaggedPlants[i].plant = plant)
                  <=> MaxStreakOf(unit_streaks, plant) > THRESHOLD_DAYS
        /\ \A i \in 1..Len(FlaggedPlants) :
              /\ FlaggedPlants[i].plant \in PlantsOf(unit_streaks)
              /\ FlaggedPlants[i].max_zero_days > THRESHOLD_DAYS

\* A report with one plant exactly at the threshold, left out, and one plant a
\* day over it, flagged.
C3_Witness ==
    /\ payload # <<>> /\ THRESHOLD_DAYS >= 1
    /\ \E p \in PlantsOf(unit_streaks) : \E q \in PlantsOf(unit_streaks) :
          /\ MaxStreakOf(unit_streaks, p) = THRESHOLD_DAYS
          /\ MaxStreakOf(unit_streaks, q) = THRESHOLD_DAYS + 1
          /\ \A i \in 1..Len(FlaggedPlants) : FlaggedPlants[i].plant # p
          /\ \E i \in 1..Len(FlaggedPlants) : FlaggedPlants[i].plant = q

\* C4: the plants of the report are in descending order of max_zero_days and,
\* when equal, ascending order of plant; the units of each plant in descending
\* order of zero_days and, when equal, ascending order of unit.
C4_Ordered ==
    payload # <<>> =>
        /\ \A i \in 1..Len(FlaggedPlants) : \A j \in 1..Len(FlaggedPlants) :
              i < j =>
                \/ FlaggedPlants[i].max_zero_days > FlaggedPlants[j].max_zero_days
                \/ /\ FlaggedPlants[i].max_zero_days = FlaggedPlants[j].max_zero_days
                   /\ StrLess(FlaggedPlants[i].plant, FlaggedPlants[j].plant)
        /\ \A k \in 1..Len(FlaggedPlants) :
              LET us == FlaggedPlants[k].units
              IN  \A i \in 1..Len(us) : \A j \in 1..Len(us) :
                    i < j =>
                      \/ us[i].zero_days > us[j].zero_days
                      \/ /\ us[i].zero_days = us[j].zero_days
                         /\ StrLess(us[i].unit, us[j].unit)

\* A report in which two plants tie on max_zero_days, a later plant of the
\* dict comes first, and a plant lists its later unit first.
C4_Witness ==
    /\ payload # <<>> /\ Len(FlaggedPlants) >= 3
    /\ \E i \in 1..(Len(FlaggedPlants) - 1) :
          FlaggedPlants[i].max_zero_days = FlaggedPlants[i + 1].max_zero_days
    /\ \E i \in 1..(Len(FlaggedPlants) - 1) :
          StrLess(FlaggedPlants[i + 1].plant, FlaggedPlants[i].plant)
    /\ \E k \in 1..Len(FlaggedPlants) :
          /\ Len(FlaggedPlants[k].units) = 2
          /\ StrLess(FlaggedPlants[k].units[2].unit, FlaggedPlants[k].units[1].unit)

\* C9: a flagged plant carries the largest streak of the units that normalize
\* to it, and lists exactly those of its units whose streak is positive, each
\* once, with its streak.
C9_RollupContents ==
    payload # <<>> =>
        \A k \in 1..Len(FlaggedPlants) :
            LET e == FlaggedPlants[k]
                mine == {i \in 1..Len(unit_streaks) :
                           /\ PlantOf[unit_streaks[i][1]] = e.plant
                           /\ unit_streaks[i][2] > 0}
            IN  /\ e.max_zero_days = MaxStreakOf(unit_streaks, e.plant)
                /\ {<<e.units[i].unit, e.units[i].zero_days>> : i \in 1..Len(e.units)}
                     = {unit_streaks[i] : i \in mine}
                /\ Len(e.units) = Cardinality(mine)

\* The scenario of the specification: A 1 over the threshold, A Unit 2 at no
\* streak, B unit1 under the threshold: plant A alone, with the one unit A 1.
C9_Witness ==
    /\ payload # <<>> /\ THRESHOLD_DAYS = 2
    /\ unit_streaks = << <<L_A1, 3>>, <<L_AU2, 0>>, <<L_Bu1, 1>> >>
    /\ FlaggedPlants = << [plant |-> <<"A">>, max_zero_days |-> 3,
                           units |-> << [unit |-> L_A1, zero_days |-> 3] >>] >>

====
